---- MODULE Spec2Model ----
(***************************************************************************)
(* Pony placement: the board / attack model (class Board) and the          *)
(* backtracking search find_one_solution of the source file.               *)
(*                                                                         *)
(* The recursion of backtrack is modelled with an explicit call stack:     *)
(* one frame per invocation, holding its arguments (start, need) and the   *)
(* loop variable i.  The list occ is shared by all frames, as in the code. *)
(*                                                                         *)
(* The window classes (MainWindow, CoordInputDialog) and the worker        *)
(* SolveRunnable are modelled by one action per slot; a search running on  *)
(* the thread pool is one step that computes find_one_solution on the      *)
(* worker's own fields and posts the finished signal to the event queue.   *)
(***************************************************************************)
EXTENDS Integers, Sequences, FiniteSets, TLC

VARIABLES
    N,          \* argument N of find_one_solution (board size)
    L,          \* argument L (number of additional ponies)
    initial,    \* argument initial_coords (the caller's list)
    occ,        \* occ_copy, the working list shared by all backtrack frames
    solution,   \* the closure variable solution
    stack,      \* active backtrack invocations, innermost last; entry is
                \* the content of occ when the invocation was entered
    pc,         \* control position of the search
    ret,        \* value returned by the backtrack invocation that just ended
    result,     \* value returned by find_one_solution
    prev,       \* value returned by the previous call with the same arguments
    tested,     \* the current call has called is_safe
    committed,  \* the current call has executed occ.append
    undone,     \* the current call has executed occ.pop
    board,      \* a Board object: [size, occupied]
    lastOp,     \* the last Board method called, with its argument and result
    inputN,     \* MainWindow.inputN.text()
    inputL,     \* MainWindow.inputL.text()
    inputK,     \* MainWindow.inputK.text()
    user_coords,    \* MainWindow.user_coords
    btnCoords,  \* MainWindow.btnCoords.isEnabled()
    btnDraw,    \* MainWindow.btnDraw.isEnabled()
    workers,    \* the SolveRunnable objects, in the order of their creation
    events,     \* finished signals posted to the GUI thread, oldest first
    board_window,   \* MainWindow.board_window
    dlg         \* a CoordInputDialog

vars == <<N, L, initial, occ, solution, stack, pc, ret, result, prev,
          tested, committed, undone, board, lastOp,
          inputN, inputL, inputK, user_coords, btnCoords, btnDraw,
          workers, events, board_window, dlg>>

searchVars == <<N, L, initial, occ, solution, stack, pc, ret, result, prev,
                tested, committed, undone>>

boardVars == <<board, lastOp>>

mainVars == <<inputN, inputL, inputK, user_coords, btnCoords, btnDraw,
              workers, events, board_window>>

guiVars == <<mainVars, dlg>>

----------------------------------------------------------------------------
(* Bounds of the model *)

MaxN == 4       \* board sizes 0..MaxN
MaxL == 5       \* requested additional ponies 0..MaxL
MaxK == 1       \* length of initial_coords 0..MaxK
MaxOcc == 2     \* Board objects hold at most MaxOcc ponies
MaxFields == 2  \* a CoordInputDialog has 1..MaxFields line edits
MaxSearches == 2    \* start_search creates at most MaxSearches workers

----------------------------------------------------------------------------
(* Values *)

\* what find_one_solution returns: a list, or Python's None
ListResult(cells) == [kind |-> "list", value |-> cells]

None == [kind |-> "None", value |-> << >>]

Pending == [kind |-> "pending", value |-> << >>]

\* no previous call has completed
NoRun == [kind |-> "NoRun", value |-> << >>]

Abs(v) == IF v < 0 THEN -v ELSE v

\* Ходы пони: конь + верблюд
PONY_MOVES ==
    << <<1, 2>>, <<2, 1>>, <<-1, 2>>, <<-2, 1>>,
       <<1, -2>>, <<2, -1>>, <<-1, -2>>, <<-2, -1>>,
       <<1, 3>>, <<3, 1>>, <<-1, 3>>, <<-3, 1>>,
       <<1, -3>>, <<3, -1>>, <<-1, -3>>, <<-3, -1>> >>

\* the literal list of is_safe (and the list with (2, 1) left out)
SAFE_OFFSETS_SHORT == << <<1, 2>>, <<1, 3>>, <<3, 1>> >>

SAFE_OFFSETS == << <<1, 2>>, <<2, 1>>, <<1, 3>>, <<3, 1>> >>

\* no Board method has been called yet
NoOp == [op |-> "none", pos |-> <<0, 0>>, value |-> << >>]

\* MainWindow.board_window = None
NoBoardWindow ==
    [shown |-> FALSE, board |-> [size |-> 0, occupied |-> << >>]]

\* no CoordInputDialog has been constructed
NoDialog ==
    [open |-> FALSE, fields |-> << >>, board_size |-> 0, btnOk |-> FALSE,
     coords |-> << >>, code |-> "none"]

\* MainWindow.__init__: empty line edits, both buttons disabled, no
\* coordinates, no worker started
MainWindowInit ==
    /\ inputN = << >>
    /\ inputL = << >>
    /\ inputK = << >>
    /\ user_coords = << >>
    /\ btnCoords = FALSE
    /\ btnDraw = FALSE
    /\ workers = << >>
    /\ events = << >>
    /\ board_window = NoBoardWindow

\* the search and the Board called without any window
NoWindows ==
    /\ MainWindowInit
    /\ dlg = NoDialog

\* x in lst, for a Python list lst
InList(x, lst) == \E k \in 1..Len(lst) : lst[k] = x

----------------------------------------------------------------------------
(* class Board *)

\* Board.__init__: the list is copied
Board(size, occupied) == [size |-> size, occupied |-> occupied]

\* the loop of is_safe from position k of self.occupied on
RECURSIVE SafeFrom(_, _, _)
SafeFrom(occupied, pos, k) ==
    IF k > Len(occupied) THEN TRUE
    ELSE LET dx == Abs(pos[1] - occupied[k][1])
             dy == Abs(pos[2] - occupied[k][2])
         IN IF InList(<<dx, dy>>, SAFE_OFFSETS) THEN FALSE
            ELSE SafeFrom(occupied, pos, k + 1)

\* is_safe with (3, 1) missing from the list, and is_safe without the loop
is_safe_no_camel(b, pos) ==
    IF InList(pos, b.occupied) THEN FALSE
    ELSE \A k \in 1..Len(b.occupied) :
            ~ InList(<<Abs(pos[1] - b.occupied[k][1]),
                       Abs(pos[2] - b.occupied[k][2])>>,
                     << <<1, 2>>, <<2, 1>>, <<1, 3>> >>)

is_safe_free_cell_only(b, pos) == ~ InList(pos, b.occupied)

is_safe(b, pos) ==
    IF InList(pos, b.occupied) THEN FALSE
    ELSE SafeFrom(b.occupied, pos, 1)

\* place without the test
place_unchecked(b, pos) ==
    [b EXCEPT !.occupied = Append(@, pos)]

place(b, pos) ==
    IF is_safe(b, pos) THEN [b EXCEPT !.occupied = Append(@, pos)]
    ELSE b

\* the bounds test of attacked_positions (and the same with <= size)
InBoardClosed(size, x, y) == 0 <= x /\ x <= size /\ 0 <= y /\ y <= size

InBoard(size, x, y) == 0 <= x /\ x < size /\ 0 <= y /\ y < size

\* the two nested loops of attacked_positions, from pony k and move m on;
\* attacks is the Python set built so far
RECURSIVE AttackLoop(_, _, _, _)
AttackLoop(b, k, m, attacks) ==
    IF k > Len(b.occupied) THEN attacks
    ELSE IF m > Len(PONY_MOVES) THEN AttackLoop(b, k + 1, 1, attacks)
    ELSE LET x == b.occupied[k][1] + PONY_MOVES[m][1]
             y == b.occupied[k][2] + PONY_MOVES[m][2]
         IN AttackLoop(b, k, m + 1,
                       IF InBoard(b.size, x, y) THEN attacks \cup {<<x, y>>}
                       ELSE attacks)

\* list(attacks): every element of the set once, in an order the language
\* does not fix.  The list is represented by the number of times each
\* coordinate occurs in it.
ListOfSet(s) == [c \in s |-> 1]

attacked_positions(b) == ListOfSet(AttackLoop(b, 1, 1, {}))

----------------------------------------------------------------------------
(* find_one_solution *)

\* divmod(i, n) raises ZeroDivisionError when n is 0
DivmodRaises(n) == n = 0

divmod(i, n) == <<i \div n, i % n>>

\* solution: List[Coord] = []   (stale is what an earlier call left behind)
KeepSolution(stale) == stale

NewSolution(stale) == << >>

\* need == 0
NeedMetBelowZero(need) == need < 0

NeedMet(need) == need = 0

\* the end of range(start, N * N)
RangeEndInclusive(n) == n * n + 1

RangeEndShort(n) == n * n - 1

RangeEnd(n) == n * n

\* the next value of the loop variable i
NextIndexSkipping(i) == i + 2

NextIndexStuck(i) == i

NextIndex(i) == i + 1

\* the start of the recursive call: backtrack(i + 1, need - 1, occ)
NextStartAgain(i) == 0

NextStart(i) == i + 1

\* occ.pop()
occ_pop_missing(lst) == lst

occ_pop(lst) == SubSeq(lst, 1, Len(lst) - 1)

\* occ[len(initial_coords):]
SliceFrom(lst, from) == SubSeq(lst, from + 1, Len(lst))

Top == stack[Len(stack)]

Pop(s) == SubSeq(s, 1, Len(s) - 1)

\* find_one_solution is entered: lines 95, 115 and the call of line 116
Call ==
    /\ pc = "idle"
    /\ solution' = NewSolution(solution)
    /\ occ' = initial
    /\ stack' = << [start |-> 0, need |-> L, i |-> 0, entry |-> initial] >>
    /\ pc' = "run"
    /\ tested' = FALSE
    /\ committed' = FALSE
    /\ undone' = FALSE
    /\ UNCHANGED <<N, L, initial, ret, result, prev, boardVars, guiVars>>

\* backtrack: need == 0, the placed cells are copied to solution
Found ==
    /\ pc = "run"
    /\ NeedMet(Top.need)
    /\ solution' = solution \o SliceFrom(occ, Len(initial))
    /\ stack' = Pop(stack)
    /\ ret' = TRUE
    /\ pc' = "returned"
    /\ UNCHANGED <<N, L, initial, occ, result, prev, tested, committed, undone,
                   boardVars, guiVars>>

\* backtrack: one iteration of the loop whose cell is not safe
Skip ==
    /\ pc = "run"
    /\ ~ NeedMet(Top.need)
    /\ Top.i < RangeEnd(N)
    /\ IF DivmodRaises(N)
       THEN /\ pc' = "error"
            /\ UNCHANGED <<stack, tested>>
       ELSE /\ ~ is_safe(Board(N, occ), divmod(Top.i, N))
            /\ tested' = TRUE
            /\ stack' = [stack EXCEPT ![Len(stack)].i = NextIndex(@)]
            /\ pc' = "run"
    /\ UNCHANGED <<N, L, initial, occ, solution, ret, result, prev, committed,
                   undone, boardVars, guiVars>>

\* backtrack: one iteration whose cell is safe: append and recurse
Commit ==
    /\ pc = "run"
    /\ ~ NeedMet(Top.need)
    /\ Top.i < RangeEnd(N)
    /\ ~ DivmodRaises(N)
    /\ LET cell == divmod(Top.i, N)
       IN /\ is_safe(Board(N, occ), cell)
          /\ occ' = Append(occ, cell)
          /\ stack' = Append(stack, [start |-> NextStart(Top.i),
                                     need |-> Top.need - 1,
                                     i |-> NextStart(Top.i),
                                     entry |-> Append(occ, cell)])
    /\ tested' = TRUE
    /\ committed' = TRUE
    /\ UNCHANGED <<N, L, initial, solution, pc, ret, result, prev, undone,
                   boardVars, guiVars>>

\* backtrack: the range is exhausted, return False
Exhausted ==
    /\ pc = "run"
    /\ ~ NeedMet(Top.need)
    /\ Top.i >= RangeEnd(N)
    /\ stack' = Pop(stack)
    /\ ret' = FALSE
    /\ pc' = "returned"
    /\ UNCHANGED <<N, L, initial, occ, solution, result, prev, tested,
                   committed, undone, boardVars, guiVars>>

\* backtrack: the recursive call returned True, return True
ReturnTrue ==
    /\ pc = "returned"
    /\ stack # << >>
    /\ ret = TRUE
    /\ stack' = Pop(stack)
    /\ UNCHANGED <<N, L, initial, occ, solution, pc, ret, result, prev, tested,
                   committed, undone, boardVars, guiVars>>

\* backtrack: the recursive call returned False: occ.pop() and go on
Undo ==
    /\ pc = "returned"
    /\ stack # << >>
    /\ ret = FALSE
    /\ occ' = occ_pop(occ)
    /\ stack' = [stack EXCEPT ![Len(stack)].i = NextIndex(@)]
    /\ pc' = "run"
    /\ undone' = TRUE
    /\ UNCHANGED <<N, L, initial, solution, ret, result, prev, tested,
                   committed, boardVars, guiVars>>

\* find_one_solution returns: solution, or None
Finish ==
    /\ pc = "returned"
    /\ stack = << >>
    /\ result' = IF ret THEN ListResult(solution) ELSE None
    /\ pc' = "done"
    /\ UNCHANGED <<N, L, initial, occ, solution, stack, ret, prev, tested,
                   committed, undone, boardVars, guiVars>>

\* the caller calls again with the same arguments; whatever the first call
\* left in its local variables is still in memory
Rerun ==
    /\ pc = "done"
    /\ prev = NoRun
    /\ prev' = result
    /\ result' = Pending
    /\ pc' = "idle"
    /\ UNCHANGED <<N, L, initial, occ, solution, stack, ret, tested,
                   committed, undone, boardVars, guiVars>>

----------------------------------------------------------------------------
(* Arguments *)

Cells(n) == (0..(n - 1)) \X (0..(n - 1))

Attacks(p, q) ==
    <<Abs(p[1] - q[1]), Abs(p[2] - q[2])>>
        \in {<<1, 2>>, <<2, 1>>, <<1, 3>>, <<3, 1>>}

\* lists of at most MaxK in-bounds coordinates, no two attacking each other
ValidInitials(n) ==
    {s \in UNION {[1..k -> Cells(n)] : k \in 0..MaxK} :
        \A a, b \in 1..Len(s) : ~ Attacks(s[a], s[b])}

Init ==
    /\ N \in 0..MaxN
    /\ L \in 0..MaxL
    /\ initial \in ValidInitials(N)
    /\ occ = << >>
    /\ solution = << >>
    /\ stack = << >>
    /\ pc = "idle"
    /\ ret = FALSE
    /\ result = Pending
    /\ prev = NoRun
    /\ tested = FALSE
    /\ committed = FALSE
    /\ undone = FALSE
    /\ board = Board(0, << >>)
    /\ lastOp = NoOp
    /\ NoWindows

Next ==
    \/ Call
    \/ Found
    \/ Skip
    \/ Commit
    \/ Exhausted
    \/ ReturnTrue
    \/ Undo
    \/ Finish

\* one call of find_one_solution
Spec == Init /\ [][Next]_vars

\* the search runs on one thread and never waits: every enabled step is taken
FairSpec == Spec /\ WF_vars(Next)

RerunNext ==
    \/ Next
    \/ Rerun

\* two calls of find_one_solution with the same arguments, one after the other
RerunSpec == Init /\ [][RerunNext]_vars

----------------------------------------------------------------------------
(* Board objects on their own: the methods place and attacked_positions    *)
(* called in any order with any arguments.                                 *)

\* coordinates handed to place: the cells of the largest board, so that on
\* the smaller boards some lie off the board
Positions == Cells(MaxN)

BoardInit ==
    /\ N = 0
    /\ L = 0
    /\ initial = << >>
    /\ occ = << >>
    /\ solution = << >>
    /\ stack = << >>
    /\ pc = "idle"
    /\ ret = FALSE
    /\ result = Pending
    /\ prev = NoRun
    /\ tested = FALSE
    /\ committed = FALSE
    /\ undone = FALSE
    /\ board \in {Board(size, << >>) : size \in 0..MaxN}
    /\ lastOp = NoOp
    /\ NoWindows

\* board.place(pos)
DoPlace ==
    /\ Len(board.occupied) < MaxOcc
    /\ \E pos \in Positions :
        /\ board' = place(board, pos)
        /\ lastOp' = [op |-> "place", pos |-> pos, value |-> << >>]
    /\ UNCHANGED <<searchVars, guiVars>>

\* board.attacked_positions()
DoAttackedPositions ==
    /\ lastOp' = [op |-> "attacked_positions", pos |-> <<0, 0>>,
                  value |-> attacked_positions(board)]
    /\ UNCHANGED board
    /\ UNCHANGED <<searchVars, guiVars>>

BoardNext ==
    \/ DoPlace
    \/ DoAttackedPositions

BoardSpec == BoardInit /\ [][BoardNext]_vars

----------------------------------------------------------------------------
(* Texts of line edits: sequences of characters.  str.isdigit, int,        *)
(* str.strip and str.split are computed on the characters.                 *)

Digits == {"0", "1", "2", "3", "4", "5", "6", "7", "8", "9"}

DigitValue(c) ==
    CASE c = "0" -> 0 [] c = "1" -> 1 [] c = "2" -> 2 [] c = "3" -> 3
      [] c = "4" -> 4 [] c = "5" -> 5 [] c = "6" -> 6 [] c = "7" -> 7
      [] c = "8" -> 8 [] c = "9" -> 9

\* text.isdigit(): not empty and every character a digit
isdigit(text) ==
    /\ Len(text) > 0
    /\ \A k \in 1..Len(text) : text[k] \in Digits

\* the value of a string of digits
RECURSIVE DigitsValue(_)
DigitsValue(text) ==
    IF Len(text) = 0 THEN 0
    ELSE 10 * DigitsValue(SubSeq(text, 1, Len(text) - 1))
            + DigitValue(text[Len(text)])

\* the digits of a token after its sign
Unsigned(token) ==
    IF Len(token) > 0 /\ token[1] \in {"-", "+"} THEN Tail(token) ELSE token

\* int(token) raises ValueError
IntRaises(token) == ~ isdigit(Unsigned(token))

\* int(token), where it does not raise
int(token) ==
    IF token[1] = "-" THEN 0 - DigitsValue(Unsigned(token))
    ELSE DigitsValue(Unsigned(token))

\* text.strip(): blanks removed at both ends
RECURSIVE strip(_)
strip(text) ==
    IF Len(text) = 0 THEN text
    ELSE IF text[1] = " " THEN strip(Tail(text))
    ELSE IF text[Len(text)] = " " THEN strip(SubSeq(text, 1, Len(text) - 1))
    ELSE text

\* text.split(): the maximal runs of non-blank characters
RECURSIVE SplitLoop(_, _, _, _)
SplitLoop(text, k, token, tokens) ==
    IF k > Len(text)
    THEN IF Len(token) = 0 THEN tokens ELSE Append(tokens, token)
    ELSE IF text[k] = " "
    THEN SplitLoop(text, k + 1, << >>,
                   IF Len(token) = 0 THEN tokens ELSE Append(tokens, token))
    ELSE SplitLoop(text, k + 1, Append(token, text[k]), tokens)

split(text) == SplitLoop(text, 1, << >>, << >>)

----------------------------------------------------------------------------
(* CoordInputDialog *)

\* the literal list of CoordInputDialog.validate
VALIDATE_OFFSETS == << <<1, 2>>, <<2, 1>>, <<1, 3>>, <<3, 1>> >>

\* x, y = map(int, text.split()) raises: not two tokens, or a token that is
\* no integer
UnpackRaises(text) ==
    LET tokens == split(text)
    IN  \/ Len(tokens) # 2
        \/ \E k \in 1..Len(tokens) : IntRaises(tokens[k])

\* tuple(map(int, text.split()))
TupleOfInts(text) ==
    LET tokens == split(text)
    IN  [k \in 1..Len(tokens) |-> int(tokens[k])]

\* the value validate gives to valid: every field unpacks to a coordinate
\* on the board, and no two of the coordinates are a pony move apart
CoordInputDialog_validate(fields, board_size) ==
    /\ \A k \in 1..Len(fields) :
          /\ ~ UnpackRaises(strip(fields[k]))
          /\ LET c == TupleOfInts(strip(fields[k]))
             IN  /\ 0 <= c[1] /\ c[1] < board_size
                 /\ 0 <= c[2] /\ c[2] < board_size
    /\ LET tmp == [k \in 1..Len(fields) |-> TupleOfInts(strip(fields[k]))]
       IN  \A i \in 1..Len(tmp) : \A j \in (i + 1)..Len(tmp) :
              ~ InList(<<Abs(tmp[i][1] - tmp[j][1]),
                         Abs(tmp[i][2] - tmp[j][2])>>, VALIDATE_OFFSETS)

\* self.coords of accept
CoordInputDialog_coords(fields) ==
    [k \in 1..Len(fields) |-> TupleOfInts(fields[k])]

\* texts typed into a field of the dialog
FieldTexts ==
    { << >>,
      <<"0", " ", "0">>,
      <<"0", " ", "1">>,
      <<"1", " ", "2">>,
      <<"1", " ", "3">>,
      <<"3", " ", "3">>,
      <<" ", "2", " ", " ", "1", " ">>,
      <<"-", "1", " ", "0">>,
      <<"0">>,
      <<"0", " ", "0", " ", "0">>,
      <<"a", " ", "0">> }

\* CoordInputDialog(K, board_size): K empty fields, OK disabled
CoordInputDialog_init ==
    /\ ~ dlg.open
    /\ \E K \in 1..MaxFields, board_size \in 0..MaxN :
          dlg' = [open |-> TRUE, fields |-> [k \in 1..K |-> << >>],
                  board_size |-> board_size, btnOk |-> FALSE,
                  coords |-> << >>, code |-> "none"]
    /\ UNCHANGED <<searchVars, boardVars, mainVars>>

\* the user changes the text of a field: textChanged calls validate
EditField ==
    /\ dlg.open
    /\ \E k \in 1..Len(dlg.fields), text \in FieldTexts :
          /\ text # dlg.fields[k]
          /\ LET fields == [dlg.fields EXCEPT ![k] = text]
             IN  dlg' = [dlg EXCEPT
                           !.fields = fields,
                           !.btnOk = CoordInputDialog_validate(
                                         fields, dlg.board_size)]
    /\ UNCHANGED <<searchVars, boardVars, mainVars>>

\* OK is clicked
CoordInputDialog_accept ==
    /\ dlg.open
    /\ dlg.btnOk
    /\ dlg' = [dlg EXCEPT !.coords = CoordInputDialog_coords(dlg.fields),
                          !.code = "Accepted",
                          !.open = FALSE]
    /\ UNCHANGED <<searchVars, boardVars, mainVars>>

\* Cancel is clicked
CoordInputDialog_reject ==
    /\ dlg.open
    /\ dlg' = [dlg EXCEPT !.code = "Rejected", !.open = FALSE]
    /\ UNCHANGED <<searchVars, boardVars, mainVars>>

SearchIdle ==
    /\ N = 0
    /\ L = 0
    /\ initial = << >>
    /\ occ = << >>
    /\ solution = << >>
    /\ stack = << >>
    /\ pc = "idle"
    /\ ret = FALSE
    /\ result = Pending
    /\ prev = NoRun
    /\ tested = FALSE
    /\ committed = FALSE
    /\ undone = FALSE
    /\ board = [size |-> 0, occupied |-> << >>]
    /\ lastOp = NoOp

DialogInit ==
    /\ SearchIdle
    /\ MainWindowInit
    /\ dlg = NoDialog

DialogNext ==
    \/ CoordInputDialog_init
    \/ EditField
    \/ CoordInputDialog_accept
    \/ CoordInputDialog_reject

\* coordinate dialogs opened one after the other
DialogSpec == DialogInit /\ [][DialogNext]_vars

----------------------------------------------------------------------------
(* find_one_solution as a function of its arguments: what one run on a     *)
(* worker thread computes.  backtrack returns its value and the list occ   *)
(* as the invocation leaves it.                                            *)

RECURSIVE backtrack(_, _, _, _)
RECURSIVE backtrack_loop(_, _, _, _)
backtrack(n, start, need, occ_copy) ==
    IF need = 0 THEN [ret |-> TRUE, occ |-> occ_copy]
    ELSE backtrack_loop(n, start, need, occ_copy)

\* for i in range(start, N * N), from index i on
backtrack_loop(n, i, need, occ_copy) ==
    IF i >= n * n THEN [ret |-> FALSE, occ |-> occ_copy]
    ELSE LET cell == divmod(i, n)
         IN  IF is_safe(Board(n, occ_copy), cell)
             THEN LET inner == backtrack(n, i + 1, need - 1,
                                         Append(occ_copy, cell))
                  IN  IF inner.ret THEN inner
                      ELSE backtrack_loop(n, i + 1, need,
                                          SubSeq(inner.occ, 1,
                                                 Len(inner.occ) - 1))
             ELSE backtrack_loop(n, i + 1, need, occ_copy)

find_one_solution(initial_coords, n, l) ==
    LET outer == backtrack(n, 0, l, initial_coords)
    IN  IF outer.ret
        THEN ListResult(SliceFrom(outer.occ, Len(initial_coords)))
        ELSE None

----------------------------------------------------------------------------
(* MainWindow, SolveRunnable and the delivery of the finished signal *)

\* texts typed into the three line edits of the main window
NTexts == { <<"2">>, <<"3">> }

LTexts == { <<"5">> }

KTexts == { <<"0">>, <<"1">> }

\* texts typed into the fields of the coordinate dialog of the main window
CoordTexts == { <<"2", " ", "2">> }

\* MainWindow.validate: the state it gives to btnCoords
validate_btnCoords(textN, textL, textK) ==
    IF isdigit(textN) /\ isdigit(textL) /\ isdigit(textK)
    THEN int(textK) > 0
    ELSE FALSE

\* MainWindow.validate: the state it gives to btnDraw
validate_btnDraw(textN, textL, textK, coords) ==
    IF isdigit(textN) /\ isdigit(textL) /\ isdigit(textK)
    THEN int(textK) = 0 \/ Len(coords) = int(textK)
    ELSE FALSE

\* the user changes the text of inputN: textChanged calls validate
EditN ==
    /\ \E text \in NTexts :
          /\ text # inputN
          /\ inputN' = text
          /\ btnCoords' = validate_btnCoords(text, inputL, inputK)
          /\ btnDraw' = validate_btnDraw(text, inputL, inputK, user_coords)
    /\ UNCHANGED <<inputL, inputK, user_coords, workers, events,
                   board_window, dlg, searchVars, boardVars>>

EditL ==
    /\ \E text \in LTexts :
          /\ text # inputL
          /\ inputL' = text
          /\ btnCoords' = validate_btnCoords(inputN, text, inputK)
          /\ btnDraw' = validate_btnDraw(inputN, text, inputK, user_coords)
    /\ UNCHANGED <<inputN, inputK, user_coords, workers, events,
                   board_window, dlg, searchVars, boardVars>>

EditK ==
    /\ \E text \in KTexts :
          /\ text # inputK
          /\ inputK' = text
          /\ btnCoords' = validate_btnCoords(inputN, inputL, text)
          /\ btnDraw' = validate_btnDraw(inputN, inputL, text, user_coords)
    /\ UNCHANGED <<inputN, inputL, user_coords, workers, events,
                   board_window, dlg, searchVars, boardVars>>

\* the lists of field texts with which a dialog of K fields for a board of
\* the given size can be accepted
AcceptableFields(K, board_size) ==
    {fields \in [1..K -> CoordTexts] :
        CoordInputDialog_validate(fields, board_size)}

\* btnCoords is clicked; the modal dialog is accepted or rejected before the
\* slot goes on
open_coords_dialog ==
    /\ btnCoords
    /\ IF IntRaises(inputK) \/ IntRaises(inputN)
       THEN UNCHANGED <<user_coords, btnCoords, btnDraw>>
       ELSE /\ \/ UNCHANGED user_coords
               \/ \E fields \in AcceptableFields(int(inputK), int(inputN)) :
                     user_coords' = CoordInputDialog_coords(fields)
            /\ btnCoords' = validate_btnCoords(inputN, inputL, inputK)
            /\ btnDraw' = validate_btnDraw(inputN, inputL, inputK,
                                           user_coords')
    /\ UNCHANGED <<inputN, inputL, inputK, workers, events, board_window,
                   dlg, searchVars, boardVars>>

\* the lists user_coords can hold, and the values find_one_solution returns
\* for the arguments start_search can pass, computed once
UserCoordLists ==
    UNION { {CoordInputDialog_coords(fields) :
                fields \in [1..int(textK) -> CoordTexts]} : textK \in KTexts }

Solutions ==
    [initial_coords \in UserCoordLists,
     n \in {int(text) : text \in NTexts},
     l \in {int(text) : text \in LTexts} |->
        find_one_solution(initial_coords, n, l)]

\* SolveRunnable(initial, N, L)
SolveRunnable(initial_coords, n, l) ==
    [initial |-> initial_coords, N |-> n, L |-> l, phase |-> "queued",
     received |-> << >>]

\* btnDraw is clicked
start_search ==
    /\ btnDraw
    /\ Len(workers) < MaxSearches
    /\ IF IntRaises(inputN) \/ IntRaises(inputL)
       THEN UNCHANGED <<btnDraw, workers>>
       ELSE /\ btnDraw' = FALSE
            /\ workers' = Append(workers,
                   SolveRunnable(user_coords, int(inputN), int(inputL)))
    /\ UNCHANGED <<inputN, inputL, inputK, user_coords, btnCoords, events,
                   board_window, dlg, searchVars, boardVars>>

\* the arguments run hands to find_one_solution: the worker's own fields
\* (and, for comparison, the list of the main window in place of the copy)
RunArgsLive(w) == [workers[w] EXCEPT !.initial = user_coords]

RunArgs(w) == workers[w]

\* finished.emit(result) from the worker thread: the call of the slot is
\* posted to the event queue of the GUI thread
EmitNothing(queue, w, value) == queue

Emit(queue, w, value) == Append(queue, [sender |-> w, value |-> value])

\* SolveRunnable.run on a thread of the pool
SolveRunnable_run(w) ==
    /\ w \in DOMAIN workers
    /\ workers[w].phase = "queued"
    /\ LET args == RunArgs(w)
       IN  events' = Emit(events, w, Solutions[args.initial, args.N, args.L])
    /\ workers' = [workers EXCEPT ![w].phase = "emitted"]
    /\ UNCHANGED <<inputN, inputL, inputK, user_coords, btnCoords, btnDraw,
                   board_window, dlg, searchVars, boardVars>>

\* for coord in solution: board.place(coord); the board after each place
\* is taken from a one-element set, which fixes its value
RECURSIVE PlaceAll(_, _, _)
PlaceAll(b, cells, k) ==
    IF k > Len(cells) THEN b
    ELSE CHOOSE last \in {PlaceAll(next, cells, k + 1) :
                             next \in {place(b, cells[k])}} : TRUE

\* the GUI thread takes the oldest posted call: on_search_finished(value)
on_search_finished ==
    /\ events # << >>
    /\ LET e == Head(events)
       IN  /\ events' = Tail(events)
           /\ workers' = [workers EXCEPT
                            ![e.sender].phase = "delivered",
                            ![e.sender].received = Append(@, e.value)]
           /\ IF e.value = None
              THEN /\ btnDraw' = TRUE
                   /\ UNCHANGED board_window
              ELSE IF IntRaises(inputN)
              THEN UNCHANGED <<btnDraw, board_window>>
              ELSE /\ board_window' =
                        [shown |-> TRUE,
                         board |-> PlaceAll(Board(int(inputN), user_coords),
                                            e.value.value, 1)]
                   /\ btnDraw' = TRUE
    /\ UNCHANGED <<inputN, inputL, inputK, user_coords, btnCoords, dlg,
                   searchVars, boardVars>>

GuiInit ==
    /\ SearchIdle
    /\ MainWindowInit
    /\ dlg = NoDialog

GuiNext ==
    \/ EditN
    \/ EditL
    \/ EditK
    \/ open_coords_dialog
    \/ start_search
    \/ \E w \in 1..MaxSearches : SolveRunnable_run(w)
    \/ on_search_finished

\* the main window with its user, the thread pool and the event queue
GuiSpec == GuiInit /\ [][GuiNext]_vars

\* the pool runs every queued worker and the event loop handles every
\* posted call
GuiFairSpec ==
    /\ GuiSpec
    /\ \A w \in 1..MaxSearches : WF_vars(SolveRunnable_run(w))
    /\ WF_vars(on_search_finished)

----------------------------------------------------------------------------
(* Notions the properties are stated in *)

\* the coordinates of a list, as a set
CellSet(lst) == {lst[k] : k \in 1..Len(lst)}

NoRepeat(lst) == \A a, b \in 1..Len(lst) : a # b => lst[a] # lst[b]

PairwiseSafe(S) == \A p, q \in S : ~ Attacks(p, q)

\* row-major index of a cell of the N x N board, and the cell of an index
Index(c) == c[1] * N + c[2]

CellAt(i) == <<i \div N, i % N>>

\* S can be extended by k more cells with indices from lo on, so that no cell
\* repeats and no two cells attack each other
RECURSIVE Extendable(_, _, _)
Extendable(S, lo, k) ==
    IF k = 0 THEN TRUE
    ELSE \E i \in lo..(N * N - 1) :
            /\ CellAt(i) \notin S
            /\ \A q \in S : ~ Attacks(CellAt(i), q)
            /\ Extendable(S \cup {CellAt(i)}, i + 1, k - 1)

Returned == pc = "done"

Succeeded == pc = "done" /\ result.kind = "list"

Failed == pc = "done" /\ result.kind = "None"

----------------------------------------------------------------------------
(* Properties of find_one_solution, checked under Spec *)

\* C1: a returned list R has exactly L cells, all on the board, none
\* repeated, none of them in initial, and no two cells of initial and R
\* together attack each other.
C1_ResultIsSafeExtension ==
    Succeeded =>
        LET R == result.value
        IN /\ Len(R) = L
           /\ \A k \in 1..Len(R) : R[k] \in Cells(N)
           /\ NoRepeat(R)
           /\ CellSet(R) \cap CellSet(initial) = {}
           /\ PairwiseSafe(CellSet(initial) \cup CellSet(R))

C1_Witness ==
    /\ Succeeded
    /\ N = MaxN
    /\ L >= 3
    /\ Len(initial) >= 1
    /\ ~ undone

\* C2: when None is returned, initial cannot be extended by L further cells
\* of the board so that the whole is pairwise-safe.
C2_NoneMeansNoExtension ==
    Failed => ~ Extendable(CellSet(initial), 0, L)

C2_Witness ==
    /\ Failed
    /\ N >= 3
    /\ L <= N * N - Len(initial)
    /\ undone

\* C3: a returned list is in strictly increasing row-major order and is the
\* lexicographically smallest increasing safe extension: no increasing safe
\* extension agrees with it on the first j-1 cells and has a smaller j-th
\* cell.  For L = 1 this is the smallest-index cell safe against initial.
C3_LexSmallest ==
    Succeeded =>
        LET R == result.value
            Before(j) == IF j = 1 THEN -1 ELSE Index(R[j - 1])
            Base(j) == CellSet(initial) \cup {R[m] : m \in 1..(j - 1)}
        IN /\ Len(R) = L
           /\ \A j \in 1..Len(R) :
                /\ Index(R[j]) > Before(j)
                /\ R[j] \notin Base(j)
                /\ \A q \in Base(j) : ~ Attacks(R[j], q)
                /\ \A i \in (Before(j) + 1)..(Index(R[j]) - 1) :
                      ~ /\ CellAt(i) \notin Base(j)
                        /\ \A q \in Base(j) : ~ Attacks(CellAt(i), q)
                        /\ Extendable(Base(j) \cup {CellAt(i)}, i + 1, L - j)

C3_Witness ==
    /\ Succeeded
    /\ L >= 2
    /\ undone
    /\ Index(result.value[1]) > 0

\* C4: with L = 0 the empty list is returned and no cell was tested or
\* appended.
C4_ZeroReturnsEmpty ==
    (Returned /\ L = 0) =>
        /\ result = ListResult(<< >>)
        /\ ~ tested
        /\ ~ committed

C4_Witness ==
    /\ Returned
    /\ L = 0
    /\ N >= 2
    /\ Len(initial) >= 1

C6_SameArgumentsSameResult ==
    (Returned /\ prev # NoRun) => result = prev

C6_Witness ==
    /\ Returned
    /\ prev # NoRun
    /\ prev.kind = "list"
    /\ Len(prev.value) >= 2
    /\ undone

\* the call has ended: with L cells appended to occ and returned, or with
\* None after the outermost backtrack returned False
Terminated ==
    /\ pc = "done"
    /\ stack = << >>
    /\ \/ result.kind = "list" /\ Len(occ) = Len(initial) + L /\ Len(result.value) = L
       \/ result.kind = "None" /\ ret = FALSE

C8_OccAlwaysSafe ==
    NoRepeat(initial) =>
        /\ NoRepeat(occ)
        /\ PairwiseSafe(CellSet(occ))

C8_Witness ==
    /\ pc = "run"
    /\ NoRepeat(initial)
    /\ Len(initial) >= 1
    /\ Len(occ) >= Len(initial) + 2
    /\ undone

\* C11: no cell of a returned list is in attacked_positions() of the board
\* that holds initial, and none is a cell of initial.
C11_ResultAvoidsAttackedCells ==
    Succeeded =>
        \A k \in 1..Len(result.value) :
            /\ result.value[k] \notin DOMAIN attacked_positions(Board(N, initial))
            /\ ~ InList(result.value[k], initial)

C11_Witness ==
    /\ Succeeded
    /\ L >= 2
    /\ Len(initial) >= 1
    /\ \E c \in DOMAIN attacked_positions(Board(N, initial)) :
          Index(c) < Index(result.value[Len(result.value)])

\* C12: the cells appended to occ after initial are in strictly increasing
\* row-major order, in every state of the search.
C12_CommittedCellsIncrease ==
    \A j \in (Len(initial) + 1)..(Len(occ) - 1) :
        Index(occ[j]) < Index(occ[j + 1])

C12_Witness ==
    /\ pc = "run"
    /\ undone
    /\ Len(occ) >= Len(initial) + 3

\* C13: a backtrack invocation that returns False leaves occ as it was when
\* the invocation was entered, and when find_one_solution returns None occ
\* equals initial.
C13_FailureRestoresOcc ==
    [][/\ (pc = "run" /\ pc' = "returned" /\ ret' = FALSE) =>
              occ' = Top.entry
       /\ (pc' = "done" /\ result'.kind = "None") => occ' = initial']_vars

C13_Witness ==
    /\ pc = "returned"
    /\ ret = FALSE
    /\ Len(stack) >= 2
    /\ undone
    /\ Len(occ) >= Len(initial) + 2

----------------------------------------------------------------------------
(* Properties of Board, checked under BoardSpec *)

\* pos is free and no pony of b attacks it
SafeAt(b, pos) ==
    /\ pos \notin CellSet(b.occupied)
    /\ \A o \in CellSet(b.occupied) : ~ Attacks(pos, o)

\* C9: place(pos) appends pos when pos is not occupied and no occupied
\* coordinate attacks it, which is when is_safe(pos) holds; otherwise it
\* leaves the board as it is.  The size never changes.
C9_PlaceAppendsIffSafe ==
    [][lastOp'.op = "place" =>
         LET pos == lastOp'.pos
         IN /\ is_safe(board, pos) <=> SafeAt(board, pos)
            /\ SafeAt(board, pos) =>
                  board'.occupied = Append(board.occupied, pos)
            /\ ~ SafeAt(board, pos) => board'.occupied = board.occupied
            /\ board'.size = board.size]_vars

C9_Witness ==
    /\ lastOp.op = "place"
    /\ Len(board.occupied) = 1
    /\ lastOp.pos # board.occupied[1]
    /\ Attacks(lastOp.pos, board.occupied[1])

\* the signed leaps: every sign and axis arrangement of (1,2) and (1,3)
LeapOffsets ==
    {d \in (-3..3) \X (-3..3) :
        <<Abs(d[1]), Abs(d[2])>> \in {<<1, 2>>, <<2, 1>>, <<1, 3>>, <<3, 1>>}}

\* the cells of the board one leap away from a pony of b
Attacked(b) ==
    {c \in Cells(b.size) :
        \E o \in CellSet(b.occupied), d \in LeapOffsets :
            c = <<o[1] + d[1], o[2] + d[2]>>}

\* C10: attacked_positions returns the cells of the board one of the 16
\* leaps away from an occupied coordinate, each once, and leaves the board
\* as it is.
C10_AttackedPositionsExact ==
    [][lastOp'.op = "attacked_positions" =>
         /\ Cardinality(LeapOffsets) = 16
         /\ DOMAIN lastOp'.value = Attacked(board)
         /\ \A c \in DOMAIN lastOp'.value : lastOp'.value[c] = 1
         /\ board' = board]_vars

C10_Witness ==
    /\ lastOp.op = "attacked_positions"
    /\ Len(board.occupied) = 2
    /\ board.size >= 3
    /\ \E c \in DOMAIN lastOp.value :
          /\ Attacks(c, board.occupied[1])
          /\ Attacks(c, board.occupied[2])
    /\ \E d \in LeapOffsets :
          <<board.occupied[1][1] + d[1], board.occupied[1][2] + d[2]>>
              \notin Cells(board.size)

----------------------------------------------------------------------------
(* Properties of the windows *)

\* the worker has been created and on_search_finished has not yet handled
\* its result
InFlight(w) == w \in DOMAIN workers /\ workers[w].phase # "delivered"

\* the value find_one_solution returns for the arguments worker w was
\* created with
ValueFor(w) ==
    find_one_solution(workers[w].initial, workers[w].N, workers[w].L)

\* C14: every search start_search dispatches has an initial list whose
\* coordinates lie on the N x N board it is dispatched with and do not
\* attack each other.
C14_DispatchedInitialValid ==
    \A w \in DOMAIN workers :
        /\ \A k \in 1..Len(workers[w].initial) :
              workers[w].initial[k] \in Cells(workers[w].N)
        /\ PairwiseSafe(CellSet(workers[w].initial))

C17_OneSearchInFlight ==
    /\ (\E w \in DOMAIN workers : InFlight(w)) => ~ btnDraw
    /\ Cardinality({w \in DOMAIN workers : InFlight(w)}) <= 1

\* C18: when on_search_finished handles a solution, the board it shows has
\* the size the search was dispatched with and holds the dispatched initial
\* coordinates followed by every cell of the solution.
C18_BoardShowsDispatchedSearch ==
    [][(/\ events # << >>
        /\ events' = Tail(events)
        /\ Head(events).value.kind = "list") =>
            LET w == workers[Head(events).sender]
            IN  board_window' =
                    [shown |-> TRUE,
                     board |-> Board(w.N, w.initial \o Head(events).value.value)]
      ]_vars

\* C19: whenever the Draw button is enabled the number of stored user
\* coordinates equals the K entered, so every search is dispatched with
\* exactly K initial coordinates (none when K = 0).
C19_DrawEnabledWithKCoords ==
    btnDraw => /\ isdigit(inputK)
               /\ Len(user_coords) = int(inputK)

\* C20: the dialog's OK button is enabled only when all entered coordinates
\* are on the board, pairwise distinct and pairwise non-attacking.
C20_OkOnlyForValidBoard ==
    dlg.btnOk =>
        LET coords == CoordInputDialog_coords(dlg.fields)
        IN  /\ \A k \in 1..Len(coords) :
                  /\ Len(coords[k]) = 2
                  /\ coords[k] \in Cells(dlg.board_size)
            /\ NoRepeat(coords)
            /\ \A a, b \in 1..Len(coords) : ~ Attacks(coords[a], coords[b])

====
